---- MODULE Spec2Model ----
(***************************************************************************)
(* The graph slice of eewegorov/process-mining-graph-state                 *)
(* (src/graph-slice.ts): the redux reducer of the slice and the eight      *)
(* redux-observable epics that react to its actions.                       *)
(*                                                                         *)
(* Actions dispatched to the store are kept in `queue` in emission order.  *)
(* Deliver takes the head of the queue, applies the reducer and hands the  *)
(* action, with the state after the reducer, to every subscribed epic.     *)
(* JavaScript runs each task to completion, so a user dispatch, a remote   *)
(* response and a timer only happen while the queue is empty.              *)
(***************************************************************************)
EXTENDS Integers, Sequences, FiniteSets, TLC

VARIABLES
    state,       \* GraphState, the value of the slice
    queue,       \* actions emitted and not yet delivered, oldest first
    alive,       \* the epics whose output stream has not terminated
    draftReqs,   \* postViewDraft calls in flight (draftEpic)
    saveReqs,    \* forkJoin fan-ins of patchDraftParameter calls (saveDraftEpic)
    commitReqs,  \* postDraft calls in flight (saveDraftCompleteEpic)
    graphReqs,   \* postDfg / postFuzzy calls in flight (graphEpic)
    paramReqs,   \* getDraftParams calls in flight (graphUserParametersEpic)
    debounce,    \* TRUE while debounceTime(1000) of graphEpic holds a getGraph
    trigger,     \* the state as it was when the latest getGraph was delivered
    dispatched,  \* number of actions dispatched from outside the epics
    last         \* what the latest step did: its kind, the events it emitted, the calls it sent

vars == <<state, queue, alive, draftReqs, saveReqs, commitReqs, graphReqs,
          paramReqs, debounce, trigger, dispatched, last>>

-----------------------------------------------------------------------------
(* Bounds of the model *)

MaxDispatch == 2

-----------------------------------------------------------------------------
(* Values *)

None == "none"
Undefined == "undefined"
Dfg == "dfg"
Fuzzy == "fuzzy"
AlgorithmTypes == {Dfg, Fuzzy}

ViewIds == {"v1"}
DraftIds == {"d1"}

\* The keys of the two filter requests: one key of DfgRequest, one of FuzzyRequest.
\* Reading a key an object does not hold yields undefined, written Absent.
Keys == {"activity-frequency", "edge-preserve"}
Absent == 0
NoFilters == [k \in Keys |-> Absent]
InitialDfgFilters == [k \in Keys |-> IF k = "activity-frequency" THEN 1 ELSE Absent]
InitialFuzzyFilters == [k \in Keys |-> IF k = "edge-preserve" THEN 1 ELSE Absent]
UserDfgFilters == [k \in Keys |-> IF k = "activity-frequency" THEN 3 ELSE Absent]

\* Status of a remote response: 200 is success, the others are AjaxError statuses.
Statuses == {200, 400, 401, 404, 500}
ErrMsg == "AjaxError"

\* Lists getDraftParams can answer with.
P1 == [id |-> "p1", method |-> "dfg", key |-> "activity-frequency", value |-> 2]
P2 == [id |-> "p2", method |-> "fuzzy", key |-> "edge-preserve", value |-> 2]
P3 == [id |-> "p3", method |-> "fuzzy", key |-> "activity-frequency", value |-> 3]
ParamLists == {<<>>, <<P1>>, <<P1, P2>>, <<P1, P3>>}

\* Graph payloads. {} as Graph is EmptyGraph, null is NullGraph; a computed graph
\* is identified by the request that produced it.
EmptyGraph == [kind |-> "empty", alg |-> None, id |-> None, filters |-> NoFilters]
NullGraph == [kind |-> "null", alg |-> None, id |-> None, filters |-> NoFilters]
GraphOf(r) == [kind |-> "graph", alg |-> r.alg, id |-> r.id, filters |-> r.filters]
EmptyMetrics == [kind |-> "empty", alg |-> None, id |-> None, filters |-> NoFilters]
MetricsOf(g) == [g EXCEPT !.kind = "metrics"]

EmptyDraft == [id |-> Undefined]

Event(t, p) == [type |-> t, payload |-> p]
Call(op, id, arg) == [op |-> op, id |-> id, arg |-> arg]

initialState ==
    [ isLoading |-> FALSE,
      error |-> "",
      viewId |-> "",
      draft |-> EmptyDraft,
      graph |-> EmptyGraph,
      dfgFilters |-> InitialDfgFilters,
      fuzzyFilters |-> InitialFuzzyFilters,
      userParams |-> <<>>,
      algorithmType |-> Dfg,
      graphMetrics |-> EmptyMetrics,
      nodeEdgeMetrics |-> None,
      width |-> "initial",
      isSidebar |-> FALSE,
      graphSidebarTabIndex |-> 0,
      graphValue |-> "CaseCount",
      onPercent |-> FALSE,
      nodeEdgeHighlighting |-> None ]

-----------------------------------------------------------------------------
(* The reducer of the slice *)

sliceReducers(s, a) ==
    CASE a.type = "getFailed" -> [s EXCEPT !.isLoading = FALSE, !.error = a.payload]
      [] a.type = "createDraft" ->
            [s EXCEPT !.isLoading = TRUE, !.viewId = a.payload, !.error = ""]
      [] a.type = "setDraft" -> [s EXCEPT !.isLoading = FALSE, !.draft = a.payload]
      [] a.type = "saveDraft" -> [s EXCEPT !.isLoading = TRUE, !.error = ""]
      [] a.type = "saveDraftComplete" -> [s EXCEPT !.isLoading = TRUE, !.error = ""]
      [] a.type = "setAlgorithmType" -> [s EXCEPT !.algorithmType = a.payload]
      [] a.type = "setDfgFilters" -> [s EXCEPT !.dfgFilters = a.payload]
      [] a.type = "setFuzzyFilters" -> [s EXCEPT !.fuzzyFilters = a.payload]
      [] a.type = "getGraph" -> [s EXCEPT !.isLoading = TRUE, !.error = ""]
      [] a.type = "setGraph" -> [s EXCEPT !.isLoading = FALSE, !.graph = a.payload]
      [] a.type = "setUserParams" -> [s EXCEPT !.userParams = a.payload]
      [] a.type = "setGraphMetrics" -> [s EXCEPT !.graphMetrics = a.payload]
      [] a.type = "setNodeEdgeMetrics" -> [s EXCEPT !.nodeEdgeMetrics = a.payload]
      [] a.type = "setNodeEdgeHighlighting" ->
            [s EXCEPT !.nodeEdgeHighlighting = a.payload]
      [] a.type = "resetNodeEdgeMetrics" ->
            [s EXCEPT !.nodeEdgeMetrics = initialState.nodeEdgeMetrics,
                      !.isSidebar = FALSE,
                      !.graphSidebarTabIndex = 0]
      [] a.type = "toggleSidebar" -> [s EXCEPT !.isSidebar = ~s.isSidebar]
      [] a.type = "toggleMetrics" ->
            [s EXCEPT !.graphSidebarTabIndex = a.payload, !.isSidebar = TRUE]
      [] a.type = "changeEdgeWidth" -> [s EXCEPT !.isLoading = FALSE, !.width = a.payload]
      [] a.type = "changeGraphValue" ->
            [s EXCEPT !.isLoading = FALSE, !.graphValue = a.payload]
      [] a.type = "toggleOnPercent" ->
            [s EXCEPT !.isLoading = FALSE, !.onPercent = a.payload]
      [] a.type = "resetDraft" -> [s EXCEPT !.draft = initialState.draft]
      [] a.type = "resetGraph" -> [s EXCEPT !.graph = initialState.graph]
      [] a.type = "resetGraphFilters" -> [s EXCEPT !.dfgFilters = initialState.dfgFilters]
      [] a.type = "resetGraphMetrics" ->
            [s EXCEPT !.graphMetrics = initialState.graphMetrics]
      [] a.type = "resetNodeEdgeHighlighting" ->
            [s EXCEPT !.nodeEdgeHighlighting = initialState.nodeEdgeHighlighting]
      [] a.type = "resetGraphCommonParams" ->
            [s EXCEPT !.isSidebar = initialState.isSidebar,
                      !.width = initialState.width,
                      !.graphValue = initialState.graphValue,
                      !.algorithmType = initialState.algorithmType]
      [] OTHER -> s

\* The reducer with a getGraph that leaves the stored error in place.
graphReducerKeepsError(s, a) ==
    IF a.type = "getGraph" THEN [s EXCEPT !.isLoading = TRUE] ELSE sliceReducers(s, a)

\* The reducer with a resetGraphFilters that also flips the sidebar.
graphReducerResetToggles(s, a) ==
    IF a.type = "resetGraphFilters"
    THEN [s EXCEPT !.dfgFilters = initialState.dfgFilters, !.isSidebar = ~s.isSidebar]
    ELSE sliceReducers(s, a)

graphReducer(s, a) == sliceReducers(s, a)

-----------------------------------------------------------------------------
(* Remote calls in flight.  `sub` says whether the epic is still subscribed  *)
(* to the call; `stale` records that a later trigger of the same workflow    *)
(* was dispatched after the call was issued.                                 *)

Unsubscribe(reqs) == {[r EXCEPT !.sub = FALSE] : r \in reqs}
Supersede(reqs) == {[r EXCEPT !.stale = TRUE] : r \in reqs}
Idle(reqs) == [reqs |-> reqs, sent |-> <<>>, emit |-> <<>>]

\* handleError without the branch of 500 and 404.
handleErrorNoNull(status) ==
    IF status = 401
    THEN <<Event("authLogout", None)>>
    ELSE <<Event("getFailed", ErrMsg)>>

handleError(status) ==
    IF status = 401
    THEN <<Event("authLogout", None)>>
    ELSE IF status = 500 \/ status = 404
         THEN <<Event("setGraph", NullGraph)>>
         ELSE <<Event("getFailed", ErrMsg)>>

-----------------------------------------------------------------------------
(* The epics: what each does with an action `a` delivered with state `s`.    *)
(* The result holds the epic's calls in flight, the calls it sent and the    *)
(* events it emitted synchronously.                                          *)

\* draftEpic with mergeMap in place of switchMap: the earlier call stays subscribed.
draftEpicMerge(a, s, reqs) ==
    IF a.type = "createDraft"
    THEN [reqs |-> reqs \cup {[viewId |-> s.viewId, sub |-> TRUE, stale |-> FALSE]},
          sent |-> <<Call("postViewDraft", s.viewId, None)>>,
          emit |-> <<>>]
    ELSE Idle(reqs)

draftEpic(a, s, reqs) ==
    IF a.type = "createDraft"
    THEN [reqs |-> Unsubscribe(reqs)
                     \cup {[viewId |-> s.viewId, sub |-> TRUE, stale |-> FALSE]},
          sent |-> <<Call("postViewDraft", s.viewId, None)>>,
          emit |-> <<>>]
    ELSE Idle(reqs)

\* newUserParams looking the value up by the parameter's id instead of its key:
\* the filter objects hold no such key, the value read is undefined.
newUserParamsById(s) ==
    [i \in DOMAIN s.userParams |-> [s.userParams[i] EXCEPT !.value = Absent]]

newUserParams(s) ==
    [i \in DOMAIN s.userParams |->
        [s.userParams[i] EXCEPT !.value =
            IF s.userParams[i].method = "fuzzy"
            THEN s.fuzzyFilters[s.userParams[i].key]
            ELSE s.dfgFilters[s.userParams[i].key]]]

\* A fan-in that emits as soon as it has a source, without waiting for the answers.
forkJoinEmitsAtOnce(params, pending) == Len(params) > 0

\* forkJoin emits (once) when it has at least one source and every source has
\* emitted and completed; with no source it completes without emitting.
forkJoinEmits(params, pending) == Len(params) > 0 /\ pending = {}

saveDraftEpic(a, s, reqs) ==
    IF a.type = "saveDraft"
    THEN LET ps == newUserParams(s)
         IN [reqs |-> Unsubscribe(reqs)
                        \cup (IF Len(ps) = 0
                              THEN {}
                              ELSE {[params |-> ps, pending |-> DOMAIN ps,
                                     sub |-> TRUE, stale |-> FALSE]}),
             sent |-> [i \in DOMAIN ps |-> Call("patchDraftParameter", ps[i].id, ps[i])],
             emit |-> IF forkJoinEmits(ps, DOMAIN ps)
                      THEN <<Event("saveDraftComplete", None)>>
                      ELSE <<>>]
    ELSE Idle(reqs)

saveDraftCompleteEpic(a, s, reqs) ==
    IF a.type = "saveDraftComplete"
    THEN [reqs |-> Unsubscribe(reqs)
                     \cup {[id |-> s.draft.id, sub |-> TRUE, stale |-> FALSE]},
          sent |-> <<Call("postDraft", s.draft.id, None)>>,
          emit |-> <<>>]
    ELSE Idle(reqs)

\* setDraftEpic without the refetch.
setDraftEpicNoRefetch(a) ==
    IF a.type = "setDraft"
    THEN <<Event("setDfgFilters", initialState.dfgFilters),
           Event("setFuzzyFilters", initialState.fuzzyFilters)>>
    ELSE <<>>

setDraftEpic(a) ==
    IF a.type = "setDraft"
    THEN <<Event("setDfgFilters", initialState.dfgFilters),
           Event("setFuzzyFilters", initialState.fuzzyFilters),
           Event("getGraph", None)>>
    ELSE <<>>

\* setAlgorithmTypeEpic resetting the DFG filters before the refetch.
setAlgorithmTypeEpicResets(a) ==
    IF a.type = "setAlgorithmType"
    THEN <<Event("setDfgFilters", initialState.dfgFilters), Event("getGraph", None)>>
    ELSE <<>>

setAlgorithmTypeEpic(a) ==
    IF a.type = "setAlgorithmType" THEN <<Event("getGraph", None)>> ELSE <<>>

\* filter(getGraph.match), debounceTime(1000): a getGraph (re)starts the timer.
graphEpicDebounce(a, pending) == a.type = "getGraph" \/ pending

\* graphEpic passing the DFG filters to both operations.
graphEpicDfgFilters(s, reqs) ==
    LET r == [alg |-> s.algorithmType, id |-> s.draft.id, filters |-> s.dfgFilters,
              sub |-> TRUE, stale |-> FALSE]
    IN [reqs |-> Unsubscribe(reqs) \cup {r},
        sent |-> <<Call(IF r.alg = Dfg THEN "postDfg" ELSE "postFuzzy", r.id, r.filters)>>,
        emit |-> <<>>]

\* graphEpic calling postDfg whatever the algorithm.
graphEpicAlwaysDfg(s, reqs) ==
    LET r == [alg |-> Dfg, id |-> s.draft.id, filters |-> s.dfgFilters,
              sub |-> TRUE, stale |-> FALSE]
    IN [reqs |-> Unsubscribe(reqs) \cup {r},
        sent |-> <<Call("postDfg", r.id, r.filters)>>,
        emit |-> <<>>]

\* The rest of graphEpic, run when the timer expires, with the state of that moment.
graphEpic(s, reqs) ==
    LET r == IF s.algorithmType = Dfg
             THEN [alg |-> Dfg, id |-> s.draft.id, filters |-> s.dfgFilters,
                   sub |-> TRUE, stale |-> FALSE]
             ELSE [alg |-> Fuzzy, id |-> s.draft.id, filters |-> s.fuzzyFilters,
                   sub |-> TRUE, stale |-> FALSE]
    IN [reqs |-> Unsubscribe(reqs) \cup {r},
        sent |-> <<Call(IF r.alg = Dfg THEN "postDfg" ELSE "postFuzzy", r.id, r.filters)>>,
        emit |-> <<>>]

\* The success branch of graphEpic with the two events in the other order.
graphSuccessMetricsFirst(data) ==
    <<Event("setGraphMetrics", MetricsOf(data)), Event("setGraph", data)>>

\* mergeMap((data) => [setGraph(data), setGraphMetrics(data.metrics)])
graphSuccess(data) ==
    <<Event("setGraph", data), Event("setGraphMetrics", MetricsOf(data))>>

\* graphUserParametersEpic with the switchMap ahead of the filter: every action
\* unsubscribes the call in flight.
graphUserParametersEpicEager(a, s, reqs) ==
    IF a.type = "setDraft"
    THEN [reqs |-> Unsubscribe(reqs)
                     \cup {[id |-> s.draft.id, sub |-> TRUE, stale |-> FALSE]},
          sent |-> <<Call("getDraftParams", s.draft.id, None)>>,
          emit |-> <<>>]
    ELSE Idle(Unsubscribe(reqs))

graphUserParametersEpic(a, s, reqs) ==
    IF a.type = "setDraft"
    THEN [reqs |-> Unsubscribe(reqs)
                     \cup {[id |-> s.draft.id, sub |-> TRUE, stale |-> FALSE]},
          sent |-> <<Call("getDraftParams", s.draft.id, None)>>,
          emit |-> <<>>]
    ELSE Idle(reqs)

\* Object.fromEntries: a later entry of the same key replaces an earlier one.
fromEntries(ps) ==
    [k \in Keys |->
        LET idx == {i \in DOMAIN ps : ps[i].key = k}
        IN IF idx = {}
           THEN Absent
           ELSE ps[CHOOSE i \in idx : \A j \in idx : j <= i].value]

graphParametersEpic(a, s) ==
    IF a.type = "setUserParams"
    THEN LET objParams == fromEntries(s.userParams)
         IN <<Event("setDfgFilters", objParams), Event("setFuzzyFilters", objParams)>>
    ELSE <<>>

-----------------------------------------------------------------------------
(* The state machine *)

Step(kind, wf, status, sub, stale, event, emitted, sent) ==
    [kind |-> kind, wf |-> wf, status |-> status, sub |-> sub, stale |-> stale,
     event |-> event, emitted |-> emitted, sent |-> sent]

Epics == {"draftEpic", "saveDraftEpic", "saveDraftCompleteEpic", "setDraftEpic",
          "setAlgorithmTypeEpic", "graphEpic", "graphUserParametersEpic",
          "graphParametersEpic"}

Init ==
    /\ state = initialState
    /\ queue = <<>>
    /\ alive = Epics
    /\ draftReqs = {}
    /\ saveReqs = {}
    /\ commitReqs = {}
    /\ graphReqs = {}
    /\ paramReqs = {}
    /\ debounce = FALSE
    /\ trigger = initialState
    /\ dispatched = 0
    /\ last = Step("init", None, 0, FALSE, FALSE, None, <<>>, <<>>)

\* The actions the view dispatches.
UserActions ==
    {Event("createDraft", v) : v \in ViewIds}
        \cup {Event("setAlgorithmType", t) : t \in AlgorithmTypes}
        \cup {Event("saveDraft", None), Event("getGraph", None),
              Event("resetGraphCommonParams", None), Event("resetGraphFilters", None)}

\* store.dispatch(a) from outside the epics.
Dispatch(a) ==
    /\ queue = <<>>
    /\ dispatched < MaxDispatch
    /\ queue' = <<a>>
    /\ dispatched' = dispatched + 1
    /\ last' = Step("dispatch", None, 0, FALSE, FALSE, a.type, <<a>>, <<>>)
    /\ UNCHANGED <<state, alive, draftReqs, saveReqs, commitReqs, graphReqs,
                   paramReqs, debounce, trigger>>

DispatchFilters ==
    /\ queue = <<>>
    /\ dispatched < MaxDispatch
    /\ queue' = <<Event("setDfgFilters", UserDfgFilters)>>
    /\ dispatched' = dispatched + 1
    /\ last' = Step("dispatch", None, 0, FALSE, FALSE, "setDfgFilters", queue', <<>>)
    /\ UNCHANGED <<state, alive, draftReqs, saveReqs, commitReqs, graphReqs,
                   paramReqs, debounce, trigger>>

\* What a subscribed epic does with the action; a terminated epic does nothing.
Run(name, result, reqs) == IF name \in alive THEN result ELSE Idle(reqs)
Emit(name, events) == IF name \in alive THEN events ELSE <<>>
Mark(a, t, reqs) == IF a.type = t THEN Supersede(reqs) ELSE reqs

\* The head of the queue goes through the reducer and then to every epic.
Deliver ==
    /\ queue # <<>>
    /\ LET a == Head(queue)
           s == graphReducer(state, a)
           d == Run("draftEpic", draftEpic(a, s, Mark(a, "createDraft", draftReqs)),
                    Mark(a, "createDraft", draftReqs))
           sv == Run("saveDraftEpic", saveDraftEpic(a, s, Mark(a, "saveDraft", saveReqs)),
                     Mark(a, "saveDraft", saveReqs))
           c == Run("saveDraftCompleteEpic",
                    saveDraftCompleteEpic(a, s, Mark(a, "saveDraftComplete", commitReqs)),
                    Mark(a, "saveDraftComplete", commitReqs))
           p == Run("graphUserParametersEpic",
                    graphUserParametersEpic(a, s, Mark(a, "setDraft", paramReqs)),
                    Mark(a, "setDraft", paramReqs))
           emitted == d.emit \o sv.emit \o c.emit
                        \o Emit("setDraftEpic", setDraftEpic(a))
                        \o Emit("setAlgorithmTypeEpic", setAlgorithmTypeEpic(a))
                        \o p.emit
                        \o Emit("graphParametersEpic", graphParametersEpic(a, s))
       IN /\ state' = s
          /\ queue' = Tail(queue) \o emitted
          /\ draftReqs' = d.reqs
          /\ saveReqs' = sv.reqs
          /\ commitReqs' = c.reqs
          /\ paramReqs' = p.reqs
          /\ graphReqs' = Mark(a, "getGraph", graphReqs)
          /\ debounce' = IF "graphEpic" \in alive
                         THEN graphEpicDebounce(a, debounce)
                         ELSE debounce
          /\ trigger' = IF a.type = "getGraph" THEN s ELSE trigger
          /\ last' = Step("deliver", None, 0, FALSE, FALSE, a.type, emitted,
                          d.sent \o sv.sent \o c.sent \o p.sent)
    /\ UNCHANGED <<alive, dispatched>>

\* 1000ms passed without another getGraph: the debounced getGraph goes on.
DebounceFire ==
    /\ queue = <<>>
    /\ debounce
    /\ LET g == graphEpic(state, graphReqs)
       IN /\ graphReqs' = g.reqs
          /\ last' = Step("debounce", "graphEpic", 0, FALSE, FALSE, None, <<>>, g.sent)
    /\ debounce' = FALSE
    /\ UNCHANGED <<state, queue, alive, draftReqs, saveReqs, commitReqs, paramReqs,
                   trigger, dispatched>>

\* postViewDraft answers: success carries the draft.
DraftResponse(r, status, id) ==
    /\ queue = <<>>
    /\ r \in draftReqs
    /\ draftReqs' = draftReqs \ {r}
    /\ LET out == IF ~r.sub THEN <<>>
                  ELSE IF status = 200 THEN <<Event("setDraft", [id |-> id])>>
                  ELSE handleError(status)
       IN /\ queue' = out
          /\ last' = Step("response", "draftEpic", status, r.sub, r.stale, None, out, <<>>)
    /\ UNCHANGED <<state, alive, saveReqs, commitReqs, graphReqs, paramReqs, debounce,
                   trigger, dispatched>>

\* postDraft answers.
CommitResponse(r, status) ==
    /\ queue = <<>>
    /\ r \in commitReqs
    /\ commitReqs' = commitReqs \ {r}
    /\ LET out == IF ~r.sub THEN <<>>
                  ELSE IF status = 200 THEN <<Event("resetDraft", None)>>
                  ELSE handleError(status)
       IN /\ queue' = out
          /\ last' = Step("response", "saveDraftCompleteEpic", status, r.sub, r.stale,
                          None, out, <<>>)
    /\ UNCHANGED <<state, alive, draftReqs, saveReqs, graphReqs, paramReqs, debounce,
                   trigger, dispatched>>

\* postDfg / postFuzzy answers: success carries the graph computed for the request.
GraphResponse(r, status) ==
    /\ queue = <<>>
    /\ r \in graphReqs
    /\ graphReqs' = graphReqs \ {r}
    /\ LET out == IF ~r.sub THEN <<>>
                  ELSE IF status = 200 THEN graphSuccess(GraphOf(r))
                  ELSE handleError(status)
       IN /\ queue' = out
          /\ last' = Step("response", "graphEpic", status, r.sub, r.stale, None, out, <<>>)
    /\ UNCHANGED <<state, alive, draftReqs, saveReqs, commitReqs, paramReqs, debounce,
                   trigger, dispatched>>

\* getDraftParams answers: success carries the list of parameters.
ParamsResponse(r, status, ps) ==
    /\ queue = <<>>
    /\ r \in paramReqs
    /\ paramReqs' = paramReqs \ {r}
    /\ LET out == IF ~r.sub THEN <<>>
                  ELSE IF status = 200 THEN <<Event("setUserParams", ps)>>
                  ELSE handleError(status)
       IN /\ queue' = out
          /\ last' = Step("response", "graphUserParametersEpic", status, r.sub, r.stale,
                          None, out, <<>>)
    /\ UNCHANGED <<state, alive, draftReqs, saveReqs, commitReqs, graphReqs, debounce,
                   trigger, dispatched>>

Uncaught == "uncaught error"

\* saveDraftEpic has no catchError: an error of a patchDraftParameter call, or its
\* timeout(1000), leaves the epic through forkJoin and switchMap and terminates
\* the epic's output stream.  Whether the other epics are terminated with it is
\* decided where the epics are combined (app/store): both outcomes are kept.
AfterError == {alive \ {"saveDraftEpic"}, {}}

Escape(r, kind, status, after) ==
    /\ alive' = after
    /\ saveReqs' = Unsubscribe(saveReqs \ {r})
    /\ queue' = <<>>
    /\ last' = Step(kind, "saveDraftEpic", status, r.sub, r.stale, Uncaught, <<>>, <<>>)
    /\ IF after = {}
       THEN /\ draftReqs' = Unsubscribe(draftReqs)
            /\ commitReqs' = Unsubscribe(commitReqs)
            /\ graphReqs' = Unsubscribe(graphReqs)
            /\ paramReqs' = Unsubscribe(paramReqs)
            /\ debounce' = FALSE
       ELSE UNCHANGED <<draftReqs, commitReqs, graphReqs, paramReqs, debounce>>
    /\ UNCHANGED <<state, trigger, dispatched>>

\* One patchDraftParameter call of a fan-in answers.
PatchResponse(r, i, status) ==
    /\ queue = <<>>
    /\ r \in saveReqs
    /\ i \in r.pending
    /\ LET rest == [r EXCEPT !.pending = r.pending \ {i}]
           done == forkJoinEmits(r.params, rest.pending)
           out == IF r.sub /\ done THEN <<Event("saveDraftComplete", None)>> ELSE <<>>
       IN IF r.sub /\ status # 200
          THEN \E after \in AfterError : Escape(r, "response", status, after)
          ELSE /\ saveReqs' = (saveReqs \ {r}) \cup (IF rest.pending = {} THEN {} ELSE {rest})
               /\ queue' = out
               /\ last' = Step("response", "saveDraftEpic", status, r.sub, r.stale, None,
                               out, <<>>)
               /\ UNCHANGED <<state, alive, draftReqs, commitReqs, graphReqs, paramReqs,
                              debounce, trigger, dispatched>>

\* timeout(1000) of a patchDraftParameter call that has not answered.
PatchTimeout(r) ==
    /\ queue = <<>>
    /\ r \in saveReqs
    /\ r.sub
    /\ r.pending # {}
    /\ \E after \in AfterError : Escape(r, "timeout", 0, after)

Next ==
    \/ \E a \in UserActions : Dispatch(a)
    \/ DispatchFilters
    \/ Deliver
    \/ DebounceFire
    \/ \E r \in draftReqs, st \in Statuses, id \in DraftIds : DraftResponse(r, st, id)
    \/ \E r \in commitReqs, st \in Statuses : CommitResponse(r, st)
    \/ \E r \in graphReqs, st \in Statuses : GraphResponse(r, st)
    \/ \E r \in paramReqs, st \in Statuses, ps \in ParamLists : ParamsResponse(r, st, ps)
    \/ \E r \in saveReqs, st \in Statuses : \E i \in r.pending : PatchResponse(r, i, st)
    \/ \E r \in saveReqs : PatchTimeout(r)

Spec == Init /\ [][Next]_vars

-----------------------------------------------------------------------------
(* Properties *)

Types(events) == [i \in DOMAIN events |-> events[i].type]
ComputeOps == {"postDfg", "postFuzzy"}
ComputeCalls(sent) == {i \in DOMAIN sent : sent[i].op \in ComputeOps}

\* The latest step was the answer to a call of epic `wf`.
Answered(wf) == last.kind = "response" /\ last.wf = wf

\* The compute call graphEpic makes for the algorithm, draft and filters of state s.
ComputeCallFor(s) ==
    IF s.algorithmType = Dfg
    THEN Call("postDfg", s.draft.id, s.dfgFilters)
    ELSE Call("postFuzzy", s.draft.id, s.fuzzyFilters)

SameCall(c, d) == c.op = d.op /\ c.id = d.id /\ c.arg = d.arg

\* C1: the answer to a graph-compute call that was issued before a later getGraph
\* emits no event, whenever it arrives (also while the later getGraph is still
\* held by the debounce).
C1_StaleGraphAnswerDiscarded ==
    (Answered("graphEpic") /\ last.stale) => Len(last.emitted) = 0

\* C2: the answer (success or failure) to a fetch-draft call that was issued before
\* a later createDraft emits no event and changes no state; a setDraft is only
\* ever emitted by the answer to the most recent createDraft.
C2_StaleDraftAnswerDiscarded ==
    [][ /\ (last'.kind = "response" /\ last'.wf = "draftEpic" /\ last'.stale)
            => (Len(last'.emitted) = 0 /\ queue' = <<>> /\ state' = state)
        /\ (\E i \in DOMAIN last'.emitted : last'.emitted[i].type = "setDraft")
            => (last'.kind = "response" /\ last'.wf = "draftEpic" /\ ~last'.stale)
      ]_vars

\* C2 witness: a successful answer to a superseded fetch-draft call has arrived.
C2_Witness == Answered("draftEpic") /\ last.stale /\ last.status = 200

\* C3 as stated: the compute call of a burst uses the algorithm, draft id and
\* filters that were in state when the last getGraph of the burst was delivered.
C3_CallUsesStateAtLastTrigger ==
    last.kind = "debounce"
        => (Len(last.sent) = 1 /\ SameCall(last.sent[1], ComputeCallFor(trigger)))

\* C3 amended: a getGraph only (re)starts the debounce and issues no compute call;
\* a compute call is issued only when the debounce expires, exactly one, and it
\* uses the algorithm, draft id and filters in state at that moment.
C3_OneCallAtExpiryWithCurrentState ==
    /\ last.kind # "debounce" => ComputeCalls(last.sent) = {}
    /\ (last.kind = "deliver" /\ last.event = "getGraph" /\ "graphEpic" \in alive)
            => debounce
    /\ last.kind = "debounce"
            => /\ Len(last.sent) = 1
               /\ SameCall(last.sent[1], ComputeCallFor(state))
               /\ ~debounce

\* C3 witness: the debounce expired after the filters were changed in the quiet period.
C3_Witness ==
    /\ last.kind = "debounce"
    /\ state.dfgFilters # trigger.dfgFilters
    /\ state.algorithmType = Dfg

\* C4: a saveDraft delivered while userParams is empty issues no update-parameter
\* call and emits exactly one saveDraftComplete.
C4_EmptySaveCompletes ==
    (last.kind = "deliver" /\ last.event = "saveDraft" /\ Len(state.userParams) = 0
        /\ "saveDraftEpic" \in alive)
        => (Len(last.sent) = 0 /\ Types(last.emitted) = <<"saveDraftComplete">>)

\* C5: no error escapes a workflow and every workflow stays subscribed.
C5_NoFailureTerminates ==
    last.event # Uncaught /\ alive = Epics

\* C6: when an update-parameter call of a live fan-in fails (status 400) or times
\* out, no saveDraftComplete is emitted and exactly one getFailed is.
C6_FanInFailureReported ==
    (last.wf = "saveDraftEpic" /\ last.sub
        /\ (last.kind = "timeout" \/ (last.kind = "response" /\ last.status = 400)))
        => Types(last.emitted) = <<"getFailed">>

\* Nothing is in flight, pending or undelivered.
Quiescent ==
    /\ queue = <<>>
    /\ ~debounce
    /\ draftReqs = {} /\ saveReqs = {} /\ commitReqs = {}
    /\ graphReqs = {} /\ paramReqs = {}

\* C7: on the success path of the save chain (saveDraft, saveDraftComplete,
\* resetDraft), once resetDraft is delivered and the system is quiescent,
\* isLoading is false.
C7_LoadingClearedAfterSave ==
    (Quiescent /\ last.kind = "deliver" /\ last.event = "resetDraft")
        => ~state.isLoading

\* C8 as stated: the compute call follows the algorithm that was in state when
\* the getGraph was delivered.
C8_CallFollowsAlgorithmAtTrigger ==
    last.kind = "debounce"
        => \A i \in ComputeCalls(last.sent) :
              last.sent[i].op = (IF trigger.algorithmType = Fuzzy
                                 THEN "postFuzzy" ELSE "postDfg")

\* C8 amended: the compute call issued when the debounce expires is postFuzzy with
\* the current draft id and fuzzyFilters if algorithmType is Fuzzy at that moment,
\* and postDfg with the current draft id and dfgFilters if it is Dfg; the other
\* operation is not called.
C8_CallFollowsAlgorithmAtExpiry ==
    last.kind = "debounce"
        => /\ state.algorithmType = Fuzzy
                => \A i \in DOMAIN last.sent :
                      /\ last.sent[i].op = "postFuzzy"
                      /\ last.sent[i].id = state.draft.id
                      /\ last.sent[i].arg = state.fuzzyFilters
           /\ state.algorithmType = Dfg
                => \A i \in DOMAIN last.sent :
                      /\ last.sent[i].op = "postDfg"
                      /\ last.sent[i].id = state.draft.id
                      /\ last.sent[i].arg = state.dfgFilters
           /\ ComputeCalls(last.sent) # {}

\* C8 witness: postFuzzy was called with filters that differ from the DFG filters.
C8_Witness ==
    /\ last.kind = "debounce"
    /\ state.algorithmType = Fuzzy
    /\ state.fuzzyFilters # state.dfgFilters
    /\ Len(last.sent) = 1

\* C9: the answer 401 to a call an epic is subscribed to emits authLogout and
\* nothing else.
C9_UnauthorizedEmitsLogout ==
    (last.kind = "response" /\ last.sub /\ last.status = 401)
        => Types(last.emitted) = <<"authLogout">>

\* An epic that routes its failures through handleError.
Translated == {"draftEpic", "saveDraftCompleteEpic", "graphEpic", "graphUserParametersEpic"}

NotFoundAnswered ==
    /\ last.kind = "response"
    /\ last.wf \in Translated
    /\ last.sub
    /\ last.status \in {404, 500}

\* C10: the answer 404 or 500 to a call whose failures go through handleError
\* emits exactly one setGraph with a null payload and no getFailed; once it is
\* delivered graph is null, isLoading is false and error is what it was.
C10_NotFoundSetsNullGraph ==
    [][ NotFoundAnswered
            => /\ Types(last.emitted) = <<"setGraph">>
               /\ last.emitted[1].payload = NullGraph
               /\ Types(queue) = <<"setGraph">>
               /\ state'.graph = NullGraph
               /\ ~state'.isLoading
               /\ state'.error = state.error
               /\ last'.kind = "deliver" /\ last'.event = "setGraph"
      ]_vars

\* C10 witness: the null graph was delivered after a 404 while isLoading was true.
C10_Witness ==
    /\ last.kind = "deliver"
    /\ last.event = "setGraph"
    /\ state.graph = NullGraph
    /\ ~state.isLoading
    /\ graphReqs = {}
    /\ state.draft.id = "d1"

-----------------------------------------------------------------------------
(* Properties of the event chains *)

Emits(type) == \E i \in DOMAIN last.emitted : last.emitted[i].type = type
Sends(op) == \E i \in DOMAIN last.sent : last.sent[i].op = op
Delivered(type) == last.kind = "deliver" /\ last.event = type

\* C11: the answer to fetch-draft emits setDraft; delivering setDraft, whatever
\* the draft, emits setDfgFilters(defaults), setFuzzyFilters(defaults) and getGraph
\* and fetches the parameters of the draft in state, and nothing else fetches
\* them; the successful answer to that fetch emits setUserParams, which nothing
\* else emits.
C11_DraftLoadChain ==
    /\ (Answered("draftEpic") /\ last.sub /\ last.status = 200)
            => (Types(last.emitted) = <<"setDraft">>
                    /\ last.emitted[1].payload.id \in DraftIds)
    /\ Delivered("setDraft")
            => /\ Types(last.emitted) = <<"setDfgFilters", "setFuzzyFilters", "getGraph">>
               /\ last.emitted[1].payload = InitialDfgFilters
               /\ last.emitted[2].payload = InitialFuzzyFilters
               /\ Len(last.sent) = 1
               /\ last.sent[1].op = "getDraftParams"
               /\ last.sent[1].id = state.draft.id
    /\ Sends("getDraftParams") => Delivered("setDraft")
    /\ (Answered("graphUserParametersEpic") /\ last.sub /\ last.status = 200)
            => Types(last.emitted) = <<"setUserParams">>
    /\ Emits("setUserParams")
            => (Answered("graphUserParametersEpic") /\ last.sub /\ last.status = 200)

\* C11 witness: the parameters of draft d1 arrived while the getGraph emitted
\* after setDraft is still held by the debounce.
C11_Witness ==
    /\ Answered("graphUserParametersEpic")
    /\ last.status = 200
    /\ Emits("setUserParams")
    /\ debounce
    /\ state.draft.id = "d1"
    /\ state.dfgFilters = InitialDfgFilters

\* The two filter sets are the projection of the parameters in state.
Projected ==
    /\ state.dfgFilters = fromEntries(state.userParams)
    /\ state.fuzzyFilters = fromEntries(state.userParams)

DistinctKeys(ps) == \A i, j \in DOMAIN ps : i # j => ps[i].key # ps[j].key

\* Every parameter of the active algorithm is sent back as it is in state.
ActiveParamsSentBack ==
    \A i \in DOMAIN state.userParams :
        state.userParams[i].method = state.algorithmType
            => /\ i \in DOMAIN last.sent
               /\ last.sent[i].op = "patchDraftParameter"
               /\ last.sent[i].id = state.userParams[i].id
               /\ last.sent[i].arg = state.userParams[i]

\* C12 as stated: for every parameter list, a saveDraft delivered while the
\* filters are the projection of the list sends every parameter of the active
\* algorithm back with its id, key and value.
C12_RoundTripAnyList ==
    (Delivered("saveDraft") /\ "saveDraftEpic" \in alive /\ Projected)
        => ActiveParamsSentBack

\* C12 amended: the same for every parameter list in which no two parameters
\* have the same key.
C12_RoundTripDistinctKeys ==
    (Delivered("saveDraft") /\ "saveDraftEpic" \in alive /\ Projected
        /\ DistinctKeys(state.userParams))
        => ActiveParamsSentBack

\* C12 witness: a list of two parameters with different keys was projected and
\* sent back.
C12_Witness ==
    /\ Delivered("saveDraft")
    /\ Projected
    /\ Len(state.userParams) = 2
    /\ DistinctKeys(state.userParams)
    /\ Len(last.sent) = 2

\* C13: delivering setAlgorithmType, and delivering the getGraph it emits, leaves
\* dfgFilters and fuzzyFilters as they were; setAlgorithmType emits nothing but
\* getGraph and getGraph emits nothing.
C13_SwitchKeepsFilters ==
    [][ (last'.kind = "deliver" /\ last'.event \in {"setAlgorithmType", "getGraph"})
            => /\ state'.dfgFilters = state.dfgFilters
               /\ state'.fuzzyFilters = state.fuzzyFilters
               /\ \A i \in DOMAIN last'.emitted :
                     /\ last'.event = "setAlgorithmType"
                     /\ last'.emitted[i].type = "getGraph"
               /\ (last'.event = "setAlgorithmType" /\ "setAlgorithmTypeEpic" \in alive)
                     => Len(last'.emitted) = 1
      ]_vars

\* C13 witness: the algorithm was switched while the DFG filters were edited ones.
C13_Witness ==
    /\ Delivered("setAlgorithmType")
    /\ state.algorithmType = Fuzzy
    /\ state.dfgFilters = UserDfgFilters

ResetGraphFilters == Event("resetGraphFilters", None)

\* C14: in every reachable state, resetGraphFilters applied twice gives the state
\* that resetGraphFilters applied once gives.
C14_ResetFiltersIdempotent ==
    graphReducer(graphReducer(state, ResetGraphFilters), ResetGraphFilters)
        = graphReducer(state, ResetGraphFilters)

\* C14 witness: resetGraphFilters was delivered after the parameters of the draft
\* had been projected into both filter sets.
C14_Witness ==
    /\ Delivered("resetGraphFilters")
    /\ Len(state.userParams) > 0
    /\ state.fuzzyFilters = fromEntries(state.userParams)
    /\ state.dfgFilters = InitialDfgFilters

\* C15: saveDraftComplete is emitted only, and once, by the successful answer that
\* completes a fan-in (no update-parameter call of it is left); postDraft is sent
\* only when saveDraftComplete is delivered, once, with the id of the draft in
\* state; its success emits resetDraft, whose delivery leaves draft at its
\* initial value.
C15_SaveThenCommit ==
    /\ Emits("saveDraftComplete")
            => /\ Answered("saveDraftEpic") /\ last.sub /\ last.status = 200
               /\ Types(last.emitted) = <<"saveDraftComplete">>
               /\ \A r \in saveReqs : ~r.sub
    /\ Sends("postDraft")
            => /\ Delivered("saveDraftComplete")
               /\ Len(last.sent) = 1
               /\ last.sent[1].id = state.draft.id
    /\ (Delivered("saveDraftComplete") /\ "saveDraftCompleteEpic" \in alive)
            => Sends("postDraft")
    /\ (Answered("saveDraftCompleteEpic") /\ last.sub /\ last.status = 200)
            => Types(last.emitted) = <<"resetDraft">>
    /\ Delivered("resetDraft") => state.draft = initialState.draft

\* C15 witness: the draft was reset after a save of two parameters.
C15_Witness ==
    /\ Delivered("resetDraft")
    /\ Len(state.userParams) = 2
    /\ state.draft = initialState.draft
    /\ state.viewId = "v1"

-----------------------------------------------------------------------------
(* Cancellation of the other workflows *)

SubIn(reqs) == \E r \in reqs : r.sub

\* The step taken is not the answer (or timeout) of a call of epic wf, not the
\* delivery of the epic's own trigger and not an uncaught error.
OtherStep(wf, trig) ==
    ~ \/ last'.kind \in {"response", "timeout"} /\ last'.wf = wf
      \/ last'.kind = "deliver" /\ last'.event = trig
      \/ last'.event = Uncaught

-----------------------------------------------------------------------------
(* Results of the refetch and the loading flag *)

\* C17: the successful answer to a compute call the epic is subscribed to emits
\* exactly setGraph(g), setGraphMetrics(g.metrics); setGraphMetrics is delivered
\* right after setGraph, and then graph = g, graphMetrics = g.metrics, isLoading
\* is false and nothing is left to deliver.
C17_GraphSuccessFoldIn ==
    /\ (Answered("graphEpic") /\ last.sub /\ last.status = 200)
            => /\ Types(last.emitted) = <<"setGraph", "setGraphMetrics">>
               /\ last.emitted[1].payload.kind = "graph"
               /\ last.emitted[2].payload
                     = [last.emitted[1].payload EXCEPT !.kind = "metrics"]
               /\ Types(queue) = <<"setGraph", "setGraphMetrics">>
    /\ (Delivered("setGraph") /\ state.graph.kind = "graph")
            => /\ Types(queue) = <<"setGraphMetrics">>
               /\ queue[1].payload = [state.graph EXCEPT !.kind = "metrics"]
               /\ ~state.isLoading
    /\ Delivered("setGraphMetrics")
            => /\ state.graph.kind = "graph"
               /\ state.graphMetrics = [state.graph EXCEPT !.kind = "metrics"]
               /\ ~state.isLoading
               /\ queue = <<>>

\* C17 witness: the graph computed for draft d1 and its metrics are in state.
C17_Witness ==
    /\ Delivered("setGraphMetrics")
    /\ state.graph.kind = "graph"
    /\ state.graph.id = "d1"
    /\ state.graphMetrics.kind = "metrics"

ActionTypes ==
    {"getFailed", "createDraft", "setDraft", "saveDraft", "saveDraftComplete",
     "setAlgorithmType", "setDfgFilters", "setFuzzyFilters", "setUserParams",
     "getGraph", "setGraph", "setGraphMetrics", "setNodeEdgeMetrics",
     "setNodeEdgeHighlighting", "toggleSidebar", "toggleMetrics", "changeEdgeWidth",
     "changeGraphValue", "toggleOnPercent", "resetDraft", "resetGraph",
     "resetGraphFilters", "resetGraphMetrics", "resetNodeEdgeMetrics",
     "resetNodeEdgeHighlighting", "resetGraphCommonParams"}

LoadingWithoutError(s) == s.isLoading => s.error = ""

\* C18: in every reachable state isLoading = true implies error = '', and every
\* action of the slice applied to a reachable state gives such a state again.
C18_LoadingImpliesNoError ==
    /\ LoadingWithoutError(state)
    /\ \A type \in ActionTypes :
          LoadingWithoutError(graphReducer(state, Event(type, ErrMsg)))

\* C18 witness: a getGraph is about to be delivered while an error is stored.
C18_Witness ==
    /\ state.error # ""
    /\ ~state.isLoading
    /\ queue # <<>>
    /\ Head(queue).type = "getGraph"

ActiveFilters(s) == IF s.algorithmType = Dfg THEN s.dfgFilters ELSE s.fuzzyFilters

\* Only createDraft was dispatched, its three calls succeeded (the draft, a
\* non-empty parameter list and a graph are in state) and nothing is left to do.
DraftLoadedAndQuiet ==
    /\ Quiescent
    /\ dispatched = 1
    /\ alive = Epics
    /\ state.viewId \in ViewIds
    /\ state.draft.id \in DraftIds
    /\ Len(state.userParams) > 0
    /\ state.graph.kind = "graph"
    /\ state.error = ""

\* C19: once a draft load with all calls successful is quiescent, the graph in
\* state was computed for the draft, the algorithm and the filter set of the
\* active algorithm that are in state.
C19_GraphMatchesFiltersAfterLoad ==
    DraftLoadedAndQuiet
        => /\ state.graph.filters = ActiveFilters(state)
           /\ state.graph.alg = state.algorithmType
           /\ state.graph.id = state.draft.id

\* C20: every compute call carries the id of a loaded draft, never an absent id.
C20_ComputeOnlyWithDraft ==
    \A i \in ComputeCalls(last.sent) : last.sent[i].id \in DraftIds

====
